---- MODULE Spec2Model ----
(***************************************************************************)
(* A model of spellcheck.py: the trie of Node objects and the Dictionary   *)
(* built on it.                                                            *)
(*                                                                         *)
(* A Python str or bytes value is a record [t, v]: t is "str" or "bytes"   *)
(* and v the sequence of its code points (byte values).  A Node object is  *)
(* identified by the sequence of dict keys leading to it from the root;    *)
(* the variable nodes maps each such path to the object's attributes, and  *)
(* the attribute children is the dict's keys in the dict's iteration       *)
(* order (insertion order, for dict and for OrderedDict).  Node.walk is a  *)
(* generator; it is modelled as consumed to its end, as ', '.join and      *)
(* list() consume it.                                                      *)
(***************************************************************************)
EXTENDS Integers, Sequences, FiniteSets, TLC

VARIABLES
    nodes,          \* path -> [letter, end, sortdict, children]
    Node_sortdict,  \* the class attribute Node.sortdict
    inserted,       \* history: the arguments root.add_word was called with
    raw,            \* history: the lines and words handed to the Dictionary
    ret             \* the last call: [op, arg, val, out, dup, text]

vars == <<nodes, Node_sortdict, inserted, raw, ret>>

\* Longest word handed to the trie, and the number of distinct words.
MaxLen == 2
MaxIns == 3

----------------------------------------------------------------------------
\* Python values

Str(s) == [t |-> "str", v |-> s]

Bytes(s) == [t |-> "bytes", v |-> s]

\* bool(x) of a str or bytes: non-empty.
Truthy(x) == Len(x.v) > 0

\* x[i:j] for 0 <= i <= j, clipped to the length as Python clips it.
Slice(x, i, j) ==
    LET hi == IF j < Len(x.v) THEN j ELSE Len(x.v)
    IN  [t |-> x.t, v |-> IF i >= hi THEN <<>> ELSE SubSeq(x.v, i + 1, hi)]

\* x[i:]
SliceFrom(x, i) == Slice(x, i, Len(x.v))

\* a < b for two sequences of code points: Python's order on str and on bytes.
RECURSIVE SeqLess(_, _)
SeqLess(a, b) ==
    IF b = <<>> THEN FALSE
    ELSE IF a = <<>> THEN TRUE
    ELSE IF Head(a) # Head(b) THEN Head(a) < Head(b)
    ELSE SeqLess(Tail(a), Tail(b))

\* str(x): a str is itself; a bytes is its repr, b'...' (the bytes of the
\* alphabets below are printable and need no escape).
PyStr(x) ==
    IF x.t = "str" THEN x ELSE Str(<<98, 39>> \o x.v \o <<39>>)

\* sorted(d.items(), key=lambda d: d[0]) on the keys of a dict: an insertion
\* sort by the keys' order (the keys of a dict are distinct).
RECURSIVE SortedInsert(_, _)
SortedInsert(k, ks) ==
    IF ks = <<>> THEN <<k>>
    ELSE IF SeqLess(k.v, Head(ks).v) THEN <<k>> \o ks
    ELSE <<Head(ks)>> \o SortedInsert(k, Tail(ks))

RECURSIVE sorted(_)
sorted(ks) ==
    IF ks = <<>> THEN <<>> ELSE SortedInsert(Head(ks), sorted(Tail(ks)))

Range(s) == {s[i] : i \in DOMAIN s}

----------------------------------------------------------------------------
\* class Node

Root == <<>>

\* Node.__init__: the instance attributes of the new object.
Node_init(letter, end, sortdict) ==
    [letter |-> letter, end |-> end, sortdict |-> sortdict, children |-> <<>>]

\* Node.__init__: its assignment to the class attribute (line 38).
Node_init_class(cls, sortdict) == IF sortdict THEN cls ELSE FALSE

\* self.children[key] = Node(key), for a key the dict does not hold.
NewChild(ns, self, key) ==
    LET child == Append(self, key)
    IN  [p \in DOMAIN ns \cup {child} |->
            IF p = child THEN Node_init(key, FALSE, TRUE)
            ELSE IF p = self
                 THEN [ns[p] EXCEPT !.children = Append(@, key)]
                 ELSE ns[p]]

\* p is a prefix of q (q is p or lies below p).
IsPrefix(p, q) == Len(p) <= Len(q) /\ SubSeq(q, 1, Len(p)) = p

\* add_word with line 61 reading len(word) > 2: the last two letters of a
\* word are not both stored.
RECURSIVE Node_add_word_gt2(_, _, _)
Node_add_word_gt2(ns, self, word) ==
    IF ~Truthy(word) THEN ns
    ELSE
        LET key == Slice(word, 0, 1)
            child == Append(self, key)
            n1 == IF key \in Range(ns[self].children)
                  THEN ns ELSE NewChild(ns, self, key)
        IN  IF Len(word.v) > 2
            THEN Node_add_word_gt2(n1, child, SliceFrom(word, 1))
            ELSE [n1 EXCEPT ![child].end = TRUE]

\* add_word without the test of line 59: the child is replaced by a new Node
\* each time, and what was below it is lost.
RECURSIVE Node_add_word_overwrite(_, _, _)
Node_add_word_overwrite(ns, self, word) ==
    IF ~Truthy(word) THEN ns
    ELSE
        LET key == Slice(word, 0, 1)
            child == Append(self, key)
            kept == {q \in DOMAIN ns : ~IsPrefix(child, q)}
            n1 == [q \in kept \cup {child} |->
                     IF q = child THEN Node_init(key, FALSE, TRUE)
                     ELSE IF q = self /\ key \notin Range(ns[q].children)
                          THEN [ns[q] EXCEPT !.children = Append(@, key)]
                          ELSE ns[q]]
        IN  IF Len(word.v) >= 2
            THEN Node_add_word_overwrite(n1, child, SliceFrom(word, 1))
            ELSE [n1 EXCEPT ![child].end = TRUE]

\* add_word without the test of lines 56-57: the empty word gets a child
\* under the empty key.
RECURSIVE Node_add_word_noguard(_, _, _)
Node_add_word_noguard(ns, self, word) ==
    LET key == Slice(word, 0, 1)
        child == Append(self, key)
        n1 == IF key \in Range(ns[self].children)
              THEN ns ELSE NewChild(ns, self, key)
    IN  IF Len(word.v) >= 2
        THEN Node_add_word_noguard(n1, child, SliceFrom(word, 1))
        ELSE [n1 EXCEPT ![child].end = TRUE]

\* Node.add_word: the trie after the call.
RECURSIVE Node_add_word(_, _, _)
Node_add_word(ns, self, word) ==
    IF ~Truthy(word) THEN ns
    ELSE
        LET key == Slice(word, 0, 1)
            child == Append(self, key)
            n1 == IF key \in Range(ns[self].children)
                  THEN ns ELSE NewChild(ns, self, key)
        IN  IF Len(word.v) >= 2
            THEN Node_add_word(n1, child, SliceFrom(word, 1))
            ELSE [n1 EXCEPT ![child].end = TRUE]

\* Node.add_word: the value the call returns.
Node_add_word_ret(word) == IF ~Truthy(word) THEN "False" ELSE "None"

\* Node.lookup: the value the call returns ("None" when it falls off the end).
RECURSIVE Node_lookup(_, _, _)
Node_lookup(ns, self, word) ==
    IF ~Truthy(word) THEN "False"
    ELSE IF ~Truthy(ns[self].letter)
    THEN IF Slice(word, 0, 1) \in Range(ns[self].children)
         THEN Node_lookup(ns, Append(self, Slice(word, 0, 1)), word)
         ELSE "None"
    ELSE IF Len(word.v) = 1
    THEN IF ns[self].letter = word /\ ns[self].end THEN "True" ELSE "False"
    ELSE IF ns[self].letter = Slice(word, 0, 1)
            /\ Slice(word, 1, 2) \in Range(ns[self].children)
         THEN Node_lookup(ns, Append(self, Slice(word, 1, 2)), SliceFrom(word, 1))
         ELSE "False"

RECURSIVE Node_walk(_, _, _), WalkChildren(_, _, _, _)

\* walk without lines 84-85: no node sorts its children.
Node_walk_nosort(ns, self, prefix) ==
    LET has == Truthy(ns[self].letter)
        prefix1 == IF has THEN Str(prefix.v \o PyStr(ns[self].letter).v)
                   ELSE prefix
        own == IF has /\ ns[self].end THEN <<prefix1>> ELSE <<>>
        rest == WalkChildren(ns, self, ns[self].children, prefix1)
    IN  [nodes |-> rest.nodes, out |-> own \o rest.out]

\* Node.walk, consumed to its end: the trie after it (walk re-orders the
\* children of the nodes that sort) and the sequence of the values it yields.
Node_walk(ns, self, prefix) ==
    LET n1 == IF ns[self].sortdict
              THEN [ns EXCEPT ![self].children = sorted(@)] ELSE ns
        has == Truthy(n1[self].letter)
        prefix1 == IF has THEN Str(prefix.v \o PyStr(n1[self].letter).v)
                   ELSE prefix
        own == IF has /\ n1[self].end THEN <<prefix1>> ELSE <<>>
        rest == WalkChildren(n1, self, n1[self].children, prefix1)
    IN  [nodes |-> rest.nodes, out |-> own \o rest.out]

\* The loop of Node.walk over self.children.items() (lines 90-91).
WalkChildren(ns, self, keys, prefix) ==
    IF keys = <<>> THEN [nodes |-> ns, out |-> <<>>]
    ELSE
        LET r == Node_walk(ns, Append(self, Head(keys)), prefix)
            rr == WalkChildren(r.nodes, self, Tail(keys), prefix)
        IN  [nodes |-> rr.nodes, out |-> r.out \o rr.out]

----------------------------------------------------------------------------
\* The trie on its own: a root Node in either mode, and str words.

Alphabet == {97, 98}

Words == {Str(s) : s \in UNION {[1..n -> Alphabet] : n \in 0..MaxLen}}

\* The record of a call: its name and argument, the value it returned (or
\* the exception it raised), what a walk yielded, and whether an add_word
\* was given a word given before; text is the str that str(d) returned.
Call(op, arg, val, out, dup) ==
    [op |-> op, arg |-> arg, val |-> val, out |-> out, dup |-> dup,
     text |-> Str(<<>>)]

NoCall == Call("none", Str(<<>>), "None", <<>>, FALSE)

\* root = Node(sortdict=s)
Init ==
    \E s \in BOOLEAN :
        /\ nodes = [p \in {Root} |-> Node_init(Str(<<>>), FALSE, s)]
        /\ Node_sortdict = Node_init_class(TRUE, s)
        /\ inserted = {}
        /\ raw = {}
        /\ ret = NoCall

\* root.add_word(w)
AddWord(w) ==
    /\ Cardinality(inserted \cup {w}) <= MaxIns
    /\ nodes' = Node_add_word(nodes, Root, w)
    /\ inserted' = inserted \cup {w}
    /\ ret' = Call("add_word", w, Node_add_word_ret(w), <<>>, w \in inserted)
    /\ UNCHANGED <<Node_sortdict, raw>>

\* root.lookup(w)
Lookup(w) ==
    /\ ret' = Call("lookup", w, Node_lookup(nodes, Root, w), <<>>, FALSE)
    /\ UNCHANGED <<nodes, Node_sortdict, inserted, raw>>

\* list(root.walk())
Walk ==
    LET r == Node_walk(nodes, Root, Str(<<>>))
    IN  /\ nodes' = r.nodes
        /\ ret' = Call("walk", Str(<<>>), "None", r.out, FALSE)
        /\ UNCHANGED <<Node_sortdict, inserted, raw>>

Next ==
    \/ \E w \in Words : AddWord(w)
    \/ \E w \in Words : Lookup(w)
    \/ Walk

Spec == Init /\ [][Next]_vars

----------------------------------------------------------------------------
\* Properties of the trie on its own (Spec)

NonEmpty(S) == {w \in S : Truthy(w)}

\* a is a proper prefix of b
ProperPrefix(a, b) == Len(a.v) < Len(b.v) /\ SubSeq(b.v, 1, Len(a.v)) = a.v

StrictlyAscending(out) ==
    \A i \in 1..(Len(out) - 1) : SeqLess(out[i].v, out[i + 1].v)

\* Plain descent: follow the child for each successive character, an absent
\* child gives false, at the end the answer is the terminal flag.
RECURSIVE PlainDescent(_, _, _)
PlainDescent(ns, self, word) ==
    IF ~Truthy(word) THEN IF ns[self].end THEN "True" ELSE "False"
    ELSE IF Slice(word, 0, 1) \in Range(ns[self].children)
    THEN PlainDescent(ns, Append(self, Slice(word, 0, 1)), SliceFrom(word, 1))
    ELSE "False"

\* C1: in every reachable state lookup returns True for every non-empty word
\* given to add_word so far, whatever add_word, lookup and walk calls came
\* between; a lookup call made for such a word returned True.
C1_InsertedWordsFound ==
    /\ \A w \in NonEmpty(inserted) : Node_lookup(nodes, Root, w) = "True"
    /\ (ret.op = "lookup" /\ ret.arg \in NonEmpty(inserted)) => ret.val = "True"

\* A lookup of a stored word that is a proper prefix of another stored word.
C1_Witness ==
    /\ ret.op = "lookup"
    /\ ret.val = "True"
    /\ \E u \in inserted : ProperPrefix(ret.arg, u)

\* C2: a lookup of a word never given to add_word returns False.
C2_NeverInsertedGivesFalse ==
    (ret.op = "lookup" /\ ret.arg \notin inserted) => ret.val = "False"

\* C3: for a root that sorts, a complete walk yields exactly the non-empty
\* words inserted so far, in strictly ascending order (so each once, a word
\* before its extensions), a second walk yields the same sequence, and a walk
\* just made yielded that sequence.
C3_SortedEnumeration ==
    nodes[Root].sortdict =>
        LET first == Node_walk(nodes, Root, Str(<<>>))
            second == Node_walk(first.nodes, Root, Str(<<>>))
        IN  /\ StrictlyAscending(first.out)
            /\ Range(first.out) = NonEmpty(inserted)
            /\ second.out = first.out
            /\ ret.op = "walk" => ret.out = first.out

\* A walk of a sorting root that yielded three words, one of them a proper
\* prefix of the next.
C3_Witness ==
    /\ nodes[Root].sortdict
    /\ ret.op = "walk"
    /\ Len(ret.out) = 3
    /\ \E i \in 1..2 : ProperPrefix(ret.out[i], ret.out[i + 1])

\* C7: an add_word of a word given before leaves the trie as it was: the same
\* nodes, letters, terminal flags and children in the same order.  Node_lookup
\* and Node_walk read nothing but the trie, so every lookup and the walk are
\* then as before.
C7_InsertIdempotent ==
    [][(ret'.op = "add_word" /\ ret'.dup) => nodes' = nodes]_vars

\* A second add_word of a word that has a stored extension.
C7_Witness ==
    /\ ret.op = "add_word"
    /\ ret.dup
    /\ Truthy(ret.arg)
    /\ \E u \in inserted : ProperPrefix(ret.arg, u)

\* C8: add_word of the empty string returns False and leaves the trie as it
\* was; in every state lookup of the empty string is False, the root is not
\* terminal and no walk yields the empty string.
C8_EmptyNeverStored ==
    /\ [][(ret'.op = "add_word" /\ ~Truthy(ret'.arg)) =>
             (nodes' = nodes /\ ret'.val = "False")]_vars
    /\ [](/\ Node_lookup(nodes, Root, Str(<<>>)) = "False"
          /\ ~nodes[Root].end
          /\ DOMAIN nodes = {p \in DOMAIN nodes : \A i \in DOMAIN p : Truthy(p[i])}
          /\ Str(<<>>) \notin Range(Node_walk(nodes, Root, Str(<<>>)).out)
          /\ (ret.op = "lookup" /\ ~Truthy(ret.arg)) => ret.val = "False")

\* An add_word of the empty string on a trie that holds words.
C8_Witness ==
    /\ ret.op = "add_word"
    /\ ~Truthy(ret.arg)
    /\ NonEmpty(inserted) # {}

\* C9: every node has the sort mode of the root, and under a root that does
\* not sort a walk re-orders no node's children.
C9_UniformSortMode ==
    /\ \A p \in DOMAIN nodes : nodes[p].sortdict = nodes[Root].sortdict
    /\ ~nodes[Root].sortdict => Node_walk(nodes, Root, Str(<<>>)).nodes = nodes

\* C10: each child stored under key k has letter k, and what a lookup call
\* returned is what plain descent gives for its argument.
C10_LookupIsPlainDescent ==
    /\ \A p \in DOMAIN nodes : p # Root => nodes[p].letter = p[Len(p)]
    /\ ret.op = "lookup" => ret.val = PlainDescent(nodes, Root, ret.arg)

----------------------------------------------------------------------------
\* class Dictionary, with its default encoding 'iso-8859-1'

\* Whether word.encode('iso-8859-1') succeeds: every code point is a byte.
Encodable(x) == \A i \in DOMAIN x.v : x.v[i] <= 255

\* word.encode('iso-8859-1') of an encodable str: code point c is byte c.
Encode(x) == Bytes(x.v)

\* The bytes that bytes.strip() removes: ASCII whitespace.
Whitespace == {9, 10, 11, 12, 13, 32}

RECURSIVE LStrip(_)
LStrip(s) ==
    IF s # <<>> /\ Head(s) \in Whitespace THEN LStrip(Tail(s)) ELSE s

RECURSIVE RStrip(_)
RStrip(s) ==
    IF s # <<>> /\ s[Len(s)] \in Whitespace
    THEN RStrip(SubSeq(s, 1, Len(s) - 1)) ELSE s

\* bytes.strip()
Strip(x) == [t |-> x.t, v |-> RStrip(LStrip(x.v))]

\* bytes.lower(): the ASCII capitals move to their small letters.
Lower(x) ==
    [t |-> x.t,
     v |-> [i \in DOMAIN x.v |->
               IF x.v[i] >= 65 /\ x.v[i] <= 90 THEN x.v[i] + 32 ELSE x.v[i]]]

\* The argument of root.add_word in Dictionary.__init__ (line 100).
LineWord(line) == Lower(Strip(Encode(line)))

\* The loop of Dictionary.__init__ over the lines of the file.
RECURSIVE LoadLines(_, _)
LoadLines(ns, lines) ==
    IF lines = <<>> THEN ns
    ELSE LoadLines(Node_add_word(ns, Root, LineWord(Head(lines))), Tail(lines))

\* Dictionary.__init__: the trie of the new Dictionary.
Dictionary_init(lines) ==
    LoadLines([p \in {Root} |-> Node_init(Str(<<>>), FALSE, TRUE)], lines)

\* ', '.join(items)
RECURSIVE Join(_)
Join(items) ==
    IF items = <<>> THEN <<>>
    ELSE IF Len(items) = 1 THEN items[1].v
    ELSE items[1].v \o <<44, 32>> \o Join(Tail(items))

\* Dictionary.__str__: the trie after the walk, what the walk yielded and the
\* str returned.
Dictionary_str(ns) ==
    LET r == Node_walk(ns, Root, Str(<<>>))
    IN  [nodes |-> r.nodes, out |-> r.out, text |-> Str(Join(r.out))]

\* Dictionary.add_word: the trie after the call (unchanged when encode raises).
Dictionary_add_word(ns, word) ==
    IF Encodable(word) THEN Node_add_word(ns, Root, Encode(word)) ELSE ns

\* Dictionary.add_word: the value returned, or the exception raised.
Dictionary_add_word_ret(word) ==
    IF Encodable(word) THEN "None" ELSE "UnicodeEncodeError"

\* encode with errors='ignore': the code points that are no byte are dropped.
RECURSIVE EncodeIgnore(_)
EncodeIgnore(s) ==
    IF s = <<>> THEN <<>>
    ELSE IF Head(s) <= 255 THEN <<Head(s)>> \o EncodeIgnore(Tail(s))
    ELSE EncodeIgnore(Tail(s))

\* lookup that encodes with errors='ignore' and so never raises.
Dictionary_lookup_ignore(ns, word) ==
    Node_lookup(ns, Root, Bytes(EncodeIgnore(word.v)))

\* Dictionary.lookup: the value returned, or the exception raised.
Dictionary_lookup(ns, word) ==
    IF Encodable(word) THEN Node_lookup(ns, Root, Encode(word))
    ELSE "UnicodeEncodeError"

\* Lines of a word list as the file iterator gives them, newline included:
\* "\n", "a\n", "Ab\n", " b \n", "ab\n".
LinePool ==
    {Str(<<10>>), Str(<<97, 10>>), Str(<<65, 98, 10>>),
     Str(<<32, 98, 32, 10>>), Str(<<97, 98, 10>>)}

WordLists == UNION {[1..n -> LinePool] : n \in 0..MaxIns}

\* Words handed to the Dictionary: "", "a", "A", "ab", "Ab", " b", "b",
\* and two with the euro sign, which iso-8859-1 cannot encode.
InputPool ==
    {Str(<<>>), Str(<<97>>), Str(<<65>>), Str(<<97, 98>>), Str(<<65, 98>>),
     Str(<<32, 98>>), Str(<<98>>), Str(<<8364>>), Str(<<97, 8364>>)}

\* d = Dictionary(filename), the file holding the lines of a word list
DictInit ==
    \E lines \in WordLists :
        /\ nodes = Dictionary_init(lines)
        /\ Node_sortdict = TRUE
        /\ inserted = {LineWord(lines[i]) : i \in DOMAIN lines}
        /\ raw = Range(lines)
        /\ ret = Call("Dictionary.__init__", Str(<<>>), "None", <<>>, FALSE)

\* d.add_word(w)
DictAddWord(w) ==
    /\ Cardinality(raw \cup {w}) <= MaxIns
    /\ nodes' = Dictionary_add_word(nodes, w)
    /\ inserted' = IF Encodable(w) THEN inserted \cup {Encode(w)} ELSE inserted
    /\ raw' = raw \cup {w}
    /\ ret' = Call("Dictionary.add_word", w, Dictionary_add_word_ret(w), <<>>,
                   w \in raw)
    /\ UNCHANGED Node_sortdict

\* d.lookup(w)
DictLookup(w) ==
    /\ ret' = Call("Dictionary.lookup", w, Dictionary_lookup(nodes, w), <<>>,
                   FALSE)
    /\ UNCHANGED <<nodes, Node_sortdict, inserted, raw>>

\* str(d)
DictStr ==
    LET r == Dictionary_str(nodes)
    IN  /\ nodes' = r.nodes
        /\ ret' = [Call("Dictionary.__str__", Str(<<>>), "str", r.out, FALSE)
                       EXCEPT !.text = r.text]
        /\ UNCHANGED <<Node_sortdict, inserted, raw>>

DictNext ==
    \/ \E w \in InputPool : DictAddWord(w)
    \/ \E w \in InputPool : DictLookup(w)
    \/ DictStr

DictSpec == DictInit /\ [][DictNext]_vars

----------------------------------------------------------------------------
\* Properties of the Dictionary (DictSpec)

\* The normalized form of a word: stripped and lower-cased, as the lines of
\* the word list are.
Normalized(u) == LineWord(u)

\* C4: a lookup of a word with the normalized form of a line of the word list
\* or of an added word returns True.
C4_SameNormalization ==
    (/\ ret.op = "Dictionary.lookup"
     /\ Encodable(ret.arg)
     /\ Truthy(Normalized(ret.arg))
     /\ \E u \in raw : Encodable(u) /\ Normalized(u) = Normalized(ret.arg))
        => ret.val = "True"

\* C5: what str(d) walked is the stored words' own character strings (the
\* bytes of each word read as characters), each once, in ascending order, and
\* the str returned joins them.
C5_EnumerationYieldsWords ==
    ret.op = "Dictionary.__str__" =>
        /\ Range(ret.out) = {Str(w.v) : w \in NonEmpty(inserted)}
        /\ StrictlyAscending(ret.out)
        /\ ret.text = Str(Join(ret.out))

\* C6 as stated: a lookup never raises; for the empty string and for a word
\* that cannot be encoded it returns False.
C6_LookupNeverRaises ==
    ret.op = "Dictionary.lookup" =>
        /\ ret.val # "UnicodeEncodeError"
        /\ (~Truthy(ret.arg) \/ ~Encodable(ret.arg)) => ret.val = "False"

\* C6 amended: a lookup leaves the trie as it was; for the empty string it
\* returns False, for a word that cannot be encoded it raises
\* UnicodeEncodeError, and for no other word does it raise.
C6_LookupEmptyFalseUnencodableRaises ==
    /\ [][ret'.op = "Dictionary.lookup" =>
             (nodes' = nodes /\ inserted' = inserted)]_vars
    /\ [](ret.op = "Dictionary.lookup" =>
             /\ ~Truthy(ret.arg) => ret.val = "False"
             /\ ~Encodable(ret.arg) <=> ret.val = "UnicodeEncodeError")

\* A lookup of a word that cannot be encoded, whose encodable part is a
\* stored word.
C6_Witness ==
    /\ ret.op = "Dictionary.lookup"
    /\ ~Encodable(ret.arg)
    /\ Bytes(EncodeIgnore(ret.arg.v)) \in NonEmpty(inserted)

====
